---- MODULE Spec2Model ----
(***************************************************************************)
(* rspotd-cli (src/src/main.rs): the command-line driver of the ARRIS      *)
(* password-of-the-day generator.  One process run is: argument parsing,   *)
(* resolution of format / date format / seed, then one of the des dump,    *)
(* the single-date report or the range report, then the output sink.       *)
(*                                                                         *)
(* Strings are sequences of tokens <<kind, value>>.  A token is a decimal  *)
(* number as the program prints it zero-padded (<<"n", 3>> is "03"), or a  *)
(* literal piece of text (<<"-", 0>>, <<"/", 0>>, ...).  str::split,       *)
(* str::parse and chrono's strftime rendering are computed on tokens.      *)
(***************************************************************************)
EXTENDS Naturals, Sequences, FiniteSets

VARIABLES
    pc,              \* where the run is: idle, resolved, formatted, generated,
                     \* range_generated, rendered, exited
    args,            \* the parsed Args
    format,          \* main's locals
    date_format,
    seed,
    date,
    formatted_date,
    date_result,
    range_result,
    potd,
    stdout,          \* what the run has printed
    stderr,
    exit_code,       \* the process's exit code, once pc = "exited"
    file,            \* the output path on disk; it outlives the run
    file_at_start,   \* history: the output path as the run found it
    calls            \* history: the calls made to rspotd and to format_date

vars == <<pc, args, format, date_format, seed, date, formatted_date,
          date_result, range_result, potd, stdout, stderr, exit_code, file,
          file_at_start, calls>>

\* The range endpoints offered are 2024-02-29 and 2024-03-01 .. 2024-03-MaxMarchDay.
MaxMarchDay == 1

----------------------------------------------------------------------------
\* Tokens and strings

N(v) == <<"n", v>>

L(c) == <<c, 0>>

DASH == L("-")

SLASH == L("/")

COLON == L(":")

SPACE == L(" ")

TAB == L("\t")

NEWLINE == L("\n")

\* A piece of text that is not a number ("abc").
JUNK == L("abc")

\* The date "y-m-d" as the ISO text YYYY-MM-DD.
Iso(y, m, d) == <<N(y), DASH, N(m), DASH, N(d)>>

\* Seq index of the first token of s equal to sep, 0 when there is none.
FindTok(s, sep) ==
    IF \E i \in 1..Len(s) : s[i] = sep
    THEN CHOOSE i \in 1..Len(s) : s[i] = sep /\ \A j \in 1..(i - 1) : s[j] # sep
    ELSE 0

RECURSIVE split(_, _)
\* str::split(sep): the pieces between separators; "" splits into one empty piece.
split(s, sep) ==
    LET i == FindTok(s, sep)
    IN  IF i = 0 THEN <<s>>
        ELSE <<SubSeq(s, 1, i - 1)>> \o split(SubSeq(s, i + 1, Len(s)), sep)

\* str::parse::<i32>() succeeds exactly on a piece that is one number.
parse_ok(piece) == Len(piece) = 1 /\ piece[1][1] = "n"

parse_val(piece) == piece[1][2]

RECURSIVE join(_, _)
\* [String]::join(sep)
join(lines, sep) ==
    IF Len(lines) = 0 THEN <<>>
    ELSE IF Len(lines) = 1 THEN lines[1]
    ELSE lines[1] \o <<sep>> \o join(Tail(lines), sep)

\* Order of token kinds inside String's byte order (only used between equal shapes).
KindRank(k) ==
    CASE k = "\t" -> 0
      [] k = "\n" -> 1
      [] k = " " -> 2
      [] k = "-" -> 3
      [] k = "/" -> 4
      [] k = "n" -> 5
      [] k = ":" -> 6
      [] OTHER -> 7

TokLess(a, b) ==
    IF a[1] = b[1] THEN a[2] < b[2] ELSE KindRank(a[1]) < KindRank(b[1])

RECURSIVE StrLess(_, _)
\* String's Ord: lexicographic, a proper prefix first. Numbers of one column
\* have one width (zero padding), so they compare as numbers.
StrLess(s, t) ==
    IF Len(t) = 0 THEN FALSE
    ELSE IF Len(s) = 0 THEN TRUE
    ELSE IF s[1] = t[1] THEN StrLess(Tail(s), Tail(t))
    ELSE TokLess(s[1], t[1])

----------------------------------------------------------------------------
\* chrono

IsLeap(y) == (y % 4 = 0 /\ y % 100 # 0) \/ y % 400 = 0

DaysInMonth(y, m) ==
    IF m \in {4, 6, 9, 11} THEN 30
    ELSE IF m = 2 THEN (IF IsLeap(y) THEN 29 ELSE 28)
    ELSE 31

\* NaiveDate::from_ymd_opt(y, m, d).is_some()
from_ymd_opt(y, m, d) == m \in 1..12 /\ d \in 1..DaysInMonth(y, m)

\* strftime items of a date format: %Y, %m, %d, literal text, or an
\* unknown specifier ("%Q"), which chrono renders as an error.
PY == L("%Y")

PM == L("%m")

PD == L("%d")

PBAD == L("%Q")

IsoPattern == <<PY, DASH, PM, DASH, PD>>

MdyPattern == <<PM, SLASH, PD, SLASH, PY>>

DmyPattern == <<PD, DASH, PM, DASH, PY>>

BadPattern == <<PY, DASH, PBAD>>

pattern_ok(p) == \A i \in 1..Len(p) : p[i] # PBAD

\* NaiveDate::format(p).to_string() of the date y-m-d, for a pattern chrono accepts.
strftime(p, y, m, d) ==
    [i \in 1..Len(p) |->
        IF p[i] = PY THEN N(y)
        ELSE IF p[i] = PM THEN N(m)
        ELSE IF p[i] = PD THEN N(d)
        ELSE p[i]]

----------------------------------------------------------------------------
\* format_date: "ok" with the rendered text, "exit1" (the out-of-range
\* message and exit(1)) or "panic" (an unwrap of a parse error, an index
\* past the end of the split, or to_string() of a format error).
format_date(pattern, d) ==
    LET parts == split(d, DASH)
    IN  IF \E i \in 1..Len(parts) : ~parse_ok(parts[i])
        THEN [status |-> "panic", val |-> <<>>]
        ELSE IF Len(parts) < 3
        THEN [status |-> "panic", val |-> <<>>]
        ELSE LET y == parse_val(parts[1])
                 m == parse_val(parts[2])
                 dd == parse_val(parts[3])
             IN  IF from_ymd_opt(y, m, dd)
                 THEN IF pattern_ok(pattern)
                      THEN [status |-> "ok", val |-> strftime(pattern, y, m, dd)]
                      ELSE [status |-> "panic", val |-> <<>>]
                 ELSE [status |-> "exit1", val |-> <<>>]

----------------------------------------------------------------------------
\* The rspotd library (not part of this repository's sources): generate,
\* generate_multiple, seed_to_des and DEFAULT_SEED, as the specification
\* describes them.  Passwords are opaque: one value per (date, seed).

DEFAULT_SEED == <<"M", "P", "S", "J", "K", "M", "D", "H", "A", "I">>

seed_ok(s) == s = DEFAULT_SEED \/ Len(s) \in 4..8

\* The library reads a date as %Y-%m-%d.
lib_date_ok(d) ==
    /\ Len(d) = 5
    /\ d[1][1] = "n" /\ d[2] = DASH /\ d[3][1] = "n" /\ d[4] = DASH /\ d[5][1] = "n"
    /\ from_ymd_opt(d[1][2], d[3][2], d[5][2])

Ordinal(d) == (d[1][2] * 100 + d[3][2]) * 100 + d[5][2]

password(d, s) == <<<<"pw", Ordinal(d) * 100 + Len(s)>>>>

generate(d, s) ==
    IF ~seed_ok(s) THEN [ok |-> FALSE, err |-> "InvalidSeed", val |-> <<>>]
    ELSE IF ~lib_date_ok(d) THEN [ok |-> FALSE, err |-> "InvalidDate", val |-> <<>>]
    ELSE [ok |-> TRUE, err |-> "", val |-> password(d, s)]

\* The calendar dates from b to e, both included.
DatesBetween(b, e) ==
    {k \in {Iso(y, m, d) : y \in b[1][2]..e[1][2], m \in 1..12, d \in 1..31} :
        /\ from_ymd_opt(k[1][2], k[3][2], k[5][2])
        /\ Ordinal(b) <= Ordinal(k) /\ Ordinal(k) <= Ordinal(e)}

generate_multiple(b, e, s) ==
    IF ~seed_ok(s) THEN [ok |-> FALSE, err |-> "InvalidSeed", val |-> <<>>]
    ELSE IF ~lib_date_ok(b) \/ ~lib_date_ok(e)
    THEN [ok |-> FALSE, err |-> "InvalidDate", val |-> <<>>]
    ELSE IF Ordinal(b) > Ordinal(e)
    THEN [ok |-> FALSE, err |-> "InvalidRange", val |-> <<>>]
    ELSE [ok |-> TRUE, err |-> "", val |-> [k \in DatesBetween(b, e) |-> password(k, s)]]

seed_to_des(s) ==
    IF ~seed_ok(s) THEN [ok |-> FALSE, err |-> "InvalidSeed"]
    ELSE [ok |-> TRUE, err |-> ""]

----------------------------------------------------------------------------
\* Reports and output streams

\* A rendered report: plain text, a JSON object (keys with their values, in
\* the order serde_json writes them) or a JSON array of strings.
NoReport == [kind |-> "none", text |-> <<>>, keys |-> <<>>, vals |-> <<>>]

TextReport(t) == [kind |-> "text", text |-> t, keys |-> <<>>, vals |-> <<>>]

JsonObject(ks, vs) == [kind |-> "object", text |-> <<>>, keys |-> ks, vals |-> vs]

JsonArray(vs) == [kind |-> "array", text |-> <<>>, keys |-> <<>>, vals |-> vs]

\* What a stream holds: a report, a message, the des text, a newline.
Chunk(k, w, r) == [kind |-> k, what |-> w, report |-> r]

NL == Chunk("nl", "", NoReport)

\* println!("{}", x)
println(out, c) == out \o <<c, NL>>

\* A panic: the message goes to standard error, the process exits with 101.
panic_code == 101

\* clap's exit code for a usage error.
usage_code == 2

----------------------------------------------------------------------------
\* format_potd: the single-date report. In the JSON branch format_date is
\* applied to the date it is given (the already formatted one) and its
\* result is not used; the key is the date given.
format_potd(p, f, d, pw) ==
    IF f = "text" THEN [status |-> "ok", val |-> TextReport(d \o <<COLON, SPACE, TAB>> \o pw)]
    ELSE LET formatted == format_date(p, d)
         IN  IF formatted.status = "ok"
             THEN [status |-> "ok", val |-> JsonObject(<<d>>, <<pw>>)]
             ELSE [status |-> formatted.status, val |-> NoReport]

\* A HashMap's iteration order: any order; here the descending one.
HashIter(map) ==
    LET RECURSIVE desc(_)
        desc(S) ==
            IF S = {} THEN <<>>
            ELSE LET k == CHOOSE x \in S : \A o \in S : o = x \/ StrLess(o, x)
                 IN  <<k>> \o desc(S \ {k})
    IN  desc(DOMAIN map)

\* Iteration of a BTreeMap<String, String>: the keys in String order.
BTreeIter(map) ==
    LET RECURSIVE asc(_)
        asc(S) ==
            IF S = {} THEN <<>>
            ELSE LET k == CHOOSE x \in S : \A o \in S : o = x \/ StrLess(x, o)
                 IN  <<k>> \o asc(S \ {k})
    IN  asc(DOMAIN map)

\* format!("{}: \t{}", ...), the separator of the single-date line.
full_val_tab(date_val, potd_val) == date_val \o <<COLON, SPACE, TAB>> \o potd_val

\* format!("{}: {}", date_val, &potd_val)
full_val(date_val, potd_val) == date_val \o <<COLON, SPACE>> \o potd_val

\* format_potd_range: one "date: password" string per entry of the map, in
\* the map's order; joined by newlines, or serialized as a JSON array.
format_potd_range(p, f, potd_range) ==
    LET days == BTreeIter(potd_range)
        shown == [i \in 1..Len(days) |-> format_date(p, days[i])]
        range == [i \in 1..Len(days) |-> full_val(shown[i].val, potd_range[days[i]])]
    IN  IF \E i \in 1..Len(days) : shown[i].status # "ok"
        THEN LET i == CHOOSE j \in 1..Len(days) :
                        shown[j].status # "ok" /\ \A h \in 1..(j - 1) : shown[h].status = "ok"
             IN  [status |-> shown[i].status, val |-> NoReport]
        ELSE IF f = "text" THEN [status |-> "ok", val |-> TextReport(join(range, NEWLINE))]
        ELSE [status |-> "ok", val |-> JsonArray(range)]

\* unwrap_range_result without its exit(1): the error is printed and the run goes on.
unwrap_range_result_no_exit(result) == [exit |-> FALSE, val |-> result.val]

\* unwrap_date_result / unwrap_range_result: exit(1) on an error, else the value.
unwrap_date_result(result) == [exit |-> ~result.ok, val |-> result.val]

unwrap_range_result(result) == [exit |-> ~result.ok, val |-> result.val]

\* OpenOptions with append instead of truncate.
open_append(f) == [exists |-> TRUE, data |-> f.data]

\* OpenOptions::new().append(false).write(true).create(true).truncate(true).open()
open(f) == [exists |-> TRUE, data |-> <<>>]

write_all(f, c) == [f EXCEPT !.data = @ \o <<c>>]

\* write_to_file, given whether the open succeeds.
write_to_file(f, report, open_ok) ==
    IF ~open_ok THEN [ok |-> FALSE, file |-> f]
    ELSE [ok |-> TRUE,
          file |-> write_all(write_all(open(f), Chunk("report", "", report)), NL)]

----------------------------------------------------------------------------
\* The command line

Some(v) == [some |-> TRUE, val |-> v]

None(v) == [some |-> FALSE, val |-> v]

ValidSeed == <<"a", "b", "c", "d">>

ShortSeed == <<"a", "b", "c">>

SeedArgs == {None(<<>>), Some(ValidSeed), Some(ShortSeed)}

\* --date: a valid date, a day and a month out of range, text that is not
\* a number, a date of two parts and one of four.
DateInputs ==
    {Iso(2024, 2, 29), Iso(2024, 2, 30), Iso(2024, 13, 1), <<JUNK>>,
     <<N(2024), DASH, N(2)>>, Iso(2024, 2, 29) \o <<DASH, N(1)>>}

DateArgs == {None(<<>>)} \cup {Some(d) : d \in DateInputs}

\* --range START END
RangeInputs ==
    {Iso(2024, 2, 29), Iso(2024, 2, 30)} \cup {Iso(2024, 3, d) : d \in 1..MaxMarchDay}

RangeArgs == {None(<<<<>>, <<>>>>)} \cup {Some(<<b, e>>) : b \in RangeInputs, e \in RangeInputs}

\* --format: clap admits "json" and "text" only.
FormatArgs == {None(""), Some("json"), Some("text")}

\* --date-format
PatternArgs == {None(<<>>), Some(MdyPattern), Some(DmyPattern), Some(BadPattern)}

\* --output
OutputArgs == {None(""), Some("out.txt")}

\* What Local::now() can read.
Clock == {Iso(2024, 3, 1)}

NoArgs ==
    [parsed |-> FALSE, seed |-> None(<<>>), date |-> None(<<>>), des |-> FALSE,
     format |-> None(""), date_format |-> None(<<>>), output |-> None(""),
     range |-> None(<<<<>>, <<>>>>), verbose |-> FALSE]

\* The conflicts_with attributes of Args: date with range, des with date or range.
clap_conflict(a) ==
    \/ a.date.some /\ a.range.some
    \/ a.des /\ (a.date.some \/ a.range.some)

\* main's branch with the des test left out.
Branch_no_des(a) ==
    IF ~a.date.some /\ ~a.range.some THEN "today"
    ELSE IF a.date.some THEN "date"
    ELSE IF a.range.some THEN "range"
    ELSE "empty"

\* The branch main takes: des first, then no date and no range, then date,
\* then range.
Branch(a) ==
    IF a.des THEN "des"
    ELSE IF ~a.date.some /\ ~a.range.some THEN "today"
    ELSE IF a.date.some THEN "date"
    ELSE IF a.range.some THEN "range"
    ELSE "empty"

\* The sink's println with the verbose test left out.
sink_echo_always(a, report) == <<Chunk("report", "", report), NL>>

\* What the sink prints of the report: all of it when there is no output
\* file or verbose is set, nothing otherwise.
sink_echo(a, report) ==
    IF ~a.output.some THEN <<Chunk("report", "", report), NL>>
    ELSE IF a.verbose THEN <<Chunk("report", "", report), NL>>
    ELSE <<>>

Call(fn, site, dates, s) == [fn |-> fn, site |-> site, dates |-> dates, seed |-> s]

----------------------------------------------------------------------------
\* The state machine

NoFile == [exists |-> FALSE, data |-> <<>>]

Init ==
    /\ pc = "idle"
    /\ args = NoArgs
    /\ format = ""
    /\ date_format = <<>>
    /\ seed = <<>>
    /\ date = <<>>
    /\ formatted_date = <<>>
    /\ date_result = <<>>
    /\ range_result = <<>>
    /\ potd = NoReport
    /\ stdout = <<>>
    /\ stderr = <<>>
    /\ exit_code = 0
    /\ file = NoFile
    /\ file_at_start = NoFile
    /\ calls = <<>>

\* The process ends: pc, the exit code and the streams are what is left.
Exit(code, out, err) ==
    /\ pc' = "exited"
    /\ exit_code' = code
    /\ stdout' = out
    /\ stderr' = err

\* Args::parse() and the resolution of format, date format and seed.
Invoke ==
    /\ pc = "idle"
    /\ \E s \in SeedArgs, d \in DateArgs, des \in BOOLEAN, f \in FormatArgs,
          df \in PatternArgs, o \in OutputArgs, r \in RangeArgs, v \in BOOLEAN :
          LET a == [parsed |-> TRUE, seed |-> s, date |-> d, des |-> des, format |-> f,
                    date_format |-> df, output |-> o, range |-> r, verbose |-> v]
          IN  IF clap_conflict(a)
              THEN /\ Exit(usage_code, <<>>, <<Chunk("usage", "ArgumentConflict", NoReport)>>)
                   /\ UNCHANGED <<args, format, date_format, seed>>
              ELSE /\ pc' = "resolved"
                   /\ args' = a
                   /\ format' = IF ~a.format.some THEN "text" ELSE a.format.val
                   /\ date_format' = IF ~a.date_format.some THEN IsoPattern
                                     ELSE a.date_format.val
                   /\ seed' = IF ~a.seed.some THEN DEFAULT_SEED ELSE a.seed.val
                   /\ UNCHANGED <<stdout, stderr, exit_code>>
    /\ UNCHANGED <<date, formatted_date, date_result, range_result, potd, file,
                   file_at_start, calls>>

\* if args.des { ... }
DesDump ==
    /\ pc = "resolved"
    /\ Branch(args) = "des"
    /\ LET des == seed_to_des(seed)
       IN  /\ calls' = Append(calls, Call("seed_to_des", "main", <<>>, seed))
           /\ IF ~des.ok
              THEN Exit(1, println(stdout, Chunk("error", des.err, NoReport)), stderr)
              ELSE Exit(0, println(stdout, Chunk("des", "", NoReport)), stderr)
    /\ UNCHANGED <<args, format, date_format, seed, date, formatted_date, date_result,
                   range_result, potd, file, file_at_start>>

\* The today and the date branch up to format_date(&date_format, &date).
FormatInputDate ==
    /\ pc = "resolved"
    /\ Branch(args) \in {"today", "date"}
    /\ \E today \in Clock :
          LET d == IF Branch(args) = "today" THEN today ELSE args.date.val
              shown == format_date(date_format, d)
          IN  /\ date' = d
              /\ calls' = Append(calls, Call("format_date", "main", <<d>>, <<>>))
              /\ IF shown.status = "ok"
                 THEN /\ formatted_date' = shown.val
                      /\ pc' = "formatted"
                      /\ UNCHANGED <<stdout, stderr, exit_code>>
                 ELSE /\ UNCHANGED formatted_date
                      /\ IF shown.status = "exit1"
                         THEN Exit(1, println(stdout, Chunk("error", "DateOutOfRange", NoReport)),
                                   stderr)
                         ELSE Exit(panic_code, stdout,
                                   Append(stderr, Chunk("panic", "format_date", NoReport)))
    /\ UNCHANGED <<args, format, date_format, seed, date_result, range_result, potd,
                   file, file_at_start>>

\* unwrap_date_result(generate(&date, &seed))
Generate ==
    /\ pc = "formatted"
    /\ LET result == generate(date, seed)
           got == unwrap_date_result(result)
       IN  /\ calls' = Append(calls, Call("generate", "main", <<date>>, seed))
           /\ IF ~result.ok
              THEN /\ stdout' = println(stdout, Chunk("error", result.err, NoReport))
                   /\ IF got.exit
                      THEN /\ pc' = "exited"
                           /\ exit_code' = 1
                           /\ UNCHANGED date_result
                      ELSE /\ pc' = "generated"
                           /\ date_result' = got.val
                           /\ UNCHANGED exit_code
              ELSE /\ date_result' = got.val
                   /\ pc' = "generated"
                   /\ UNCHANGED <<stdout, exit_code>>
    /\ UNCHANGED <<args, format, date_format, seed, date, formatted_date, range_result,
                   potd, stderr, file, file_at_start>>

\* potd = format_potd(&date_format, &format, &formatted_date, &date_result)
RenderSingle ==
    /\ pc = "generated"
    /\ LET r == format_potd(date_format, format, formatted_date, date_result)
       IN  /\ calls' = IF format = "text" THEN calls
                       ELSE Append(calls, Call("format_date", "format_potd",
                                               <<formatted_date>>, <<>>))
           /\ IF r.status = "ok"
              THEN /\ potd' = r.val
                   /\ pc' = "rendered"
                   /\ UNCHANGED <<stdout, stderr, exit_code>>
              ELSE /\ UNCHANGED potd
                   /\ IF r.status = "exit1"
                      THEN Exit(1, println(stdout, Chunk("error", "DateOutOfRange", NoReport)),
                                stderr)
                      ELSE Exit(panic_code, stdout,
                                Append(stderr, Chunk("panic", "format_date", NoReport)))
    /\ UNCHANGED <<args, format, date_format, seed, date, formatted_date, date_result,
                   range_result, file, file_at_start>>

\* unwrap_range_result(generate_multiple(begin, end, &seed))
GenerateMultiple ==
    /\ pc = "resolved"
    /\ Branch(args) = "range"
    /\ LET begin == args.range.val[1]
           end == args.range.val[2]
           result == generate_multiple(begin, end, seed)
           got == unwrap_range_result(result)
       IN  /\ calls' = Append(calls, Call("generate_multiple", "main", <<begin, end>>, seed))
           /\ IF ~result.ok
              THEN /\ stdout' = println(stdout, Chunk("error", result.err, NoReport))
                   /\ IF got.exit
                      THEN /\ pc' = "exited"
                           /\ exit_code' = 1
                           /\ UNCHANGED range_result
                      ELSE /\ pc' = "range_generated"
                           /\ range_result' = got.val
                           /\ UNCHANGED exit_code
              ELSE /\ range_result' = got.val
                   /\ pc' = "range_generated"
                   /\ UNCHANGED <<stdout, exit_code>>
    /\ UNCHANGED <<args, format, date_format, seed, date, formatted_date, date_result,
                   potd, stderr, file, file_at_start>>

\* potd = format_potd_range(&date_format, &format, _range_result)
RenderRange ==
    /\ pc = "range_generated"
    /\ LET r == format_potd_range(date_format, format, range_result)
           days == BTreeIter(range_result)
       IN  /\ calls' = calls \o [i \in 1..Len(days) |->
                                    Call("format_date", "format_potd_range", <<days[i]>>, <<>>)]
           /\ IF r.status = "ok"
              THEN /\ potd' = r.val
                   /\ pc' = "rendered"
                   /\ UNCHANGED <<stdout, stderr, exit_code>>
              ELSE /\ UNCHANGED potd
                   /\ IF r.status = "exit1"
                      THEN Exit(1, println(stdout, Chunk("error", "DateOutOfRange", NoReport)),
                                stderr)
                      ELSE Exit(panic_code, stdout,
                                Append(stderr, Chunk("panic", "format_date", NoReport)))
    /\ UNCHANGED <<args, format, date_format, seed, date, formatted_date, date_result,
                   range_result, file, file_at_start>>

\* The output sink: println, or the optional println and write_to_file.
\* Whether the open succeeds is the file system's choice.
Sink ==
    /\ pc = "rendered"
    /\ \E open_ok \in BOOLEAN :
          LET echoed == stdout \o sink_echo(args, potd)
              written == write_to_file(file, potd, open_ok)
          IN  IF ~args.output.some
              THEN /\ Exit(0, echoed, stderr)
                   /\ UNCHANGED file
              ELSE IF written.ok
              THEN /\ file' = written.file
                   /\ Exit(0, echoed, stderr)
              ELSE /\ UNCHANGED file
                   /\ Exit(1, println(echoed, Chunk("error", "SinkError", NoReport)), stderr)
    /\ UNCHANGED <<args, format, date_format, seed, date, formatted_date, date_result,
                   range_result, potd, file_at_start, calls>>

\* The process is gone; the next run finds the file as this one left it.
Teardown ==
    /\ pc = "exited"
    /\ pc' = "idle"
    /\ args' = NoArgs
    /\ format' = ""
    /\ date_format' = <<>>
    /\ seed' = <<>>
    /\ date' = <<>>
    /\ formatted_date' = <<>>
    /\ date_result' = <<>>
    /\ range_result' = <<>>
    /\ potd' = NoReport
    /\ stdout' = <<>>
    /\ stderr' = <<>>
    /\ exit_code' = 0
    /\ file_at_start' = file
    /\ calls' = <<>>
    /\ UNCHANGED file

Next ==
    \/ Invoke
    \/ DesDump
    \/ FormatInputDate
    \/ Generate
    \/ RenderSingle
    \/ GenerateMultiple
    \/ RenderRange
    \/ Sink
    \/ Teardown

Spec == Init /\ [][Next]_vars

----------------------------------------------------------------------------
\* Vocabulary of the properties

IsLibCall(c) == c.fn \in {"seed_to_des", "generate", "generate_multiple"}

IsGenerationCall(c) == c.fn \in {"generate", "generate_multiple"}

HasKind(out, k) == \E i \in 1..Len(out) : out[i].kind = k

HasError(out, w) == \E i \in 1..Len(out) : out[i].kind = "error" /\ out[i].what = w

\* A failure other than the sink's has been reported.
FailedBeforeSink ==
    \/ \E i \in 1..Len(stdout) : stdout[i].kind = "error" /\ stdout[i].what # "SinkError"
    \/ HasKind(stderr, "panic")

\* The run has ended and its sink has run.
Sunk == pc = "exited" /\ potd.kind # "none"

ReportOut == <<Chunk("report", "", potd), NL>>

\* The place of date k among the dates of the range, in calendar order.
Rank(k) == 1 + Cardinality({o \in DOMAIN range_result : Ordinal(o) < Ordinal(k)})

\* Date k as --date-format displays it.
Displayed(k) == strftime(date_format, k[1][2], k[3][2], k[5][2])

\* The entries read back from a report: the lines of a text report, the
\* elements of a JSON array, the key and value pairs of a JSON object.
ReportEntries(r) ==
    IF r.kind = "text" THEN (IF r.text = <<>> THEN <<>> ELSE split(r.text, NEWLINE))
    ELSE IF r.kind = "array" THEN r.vals
    ELSE [i \in 1..Len(r.keys) |-> r.keys[i] \o r.vals[i]]

StartsWith(s, t) == Len(t) <= Len(s) /\ SubSeq(s, 1, Len(t)) = t

EndsWith(s, t) == Len(t) <= Len(s) /\ SubSeq(s, Len(s) - Len(t) + 1, Len(s)) = t

RangeRendered == args.parsed /\ Branch(args) = "range" /\ potd.kind # "none"

----------------------------------------------------------------------------
\* C1: the mode follows des, then range, then date, then today: a run with
\* des calls seed_to_des only and fails when the seed is rejected; else a
\* range calls generate_multiple(start, end, seed); else a date calls
\* generate(date, seed); else generate is called with today's date; a run
\* makes at most one library call, and exactly one when it reaches the sink.
C1_ModePrecedence ==
    args.parsed =>
        LET lib == SelectSeq(calls, IsLibCall)
        IN  /\ Len(lib) <= 1
            /\ (pc = "rendered" \/ (pc = "exited" /\ exit_code = 0)) => Len(lib) = 1
            /\ \A i \in 1..Len(lib) :
                  IF args.des THEN lib[i] = Call("seed_to_des", "main", <<>>, seed)
                  ELSE IF args.range.some
                  THEN lib[i] = Call("generate_multiple", "main",
                                     <<args.range.val[1], args.range.val[2]>>, seed)
                  ELSE IF args.date.some
                  THEN lib[i] = Call("generate", "main", <<args.date.val>>, seed)
                  ELSE /\ lib[i].fn = "generate"
                       /\ lib[i].dates[1] \in Clock
                       /\ lib[i].seed = seed
            /\ (args.des /\ pc = "exited" /\ ~seed_to_des(seed).ok) => exit_code = 1
            /\ (args.des /\ pc = "exited") => Len(lib) = 1

\* A des run whose seed the library rejects has ended as a failure.
C1_Witness ==
    /\ pc = "exited" /\ args.parsed /\ args.des /\ args.seed.some
    /\ exit_code = 1
    /\ Len(calls) = 1 /\ calls[1].fn = "seed_to_des"

\* C2: every run whose arguments were accepted ends with exit code 0, or
\* with exit code 1 and one message line on standard output; nothing else
\* (an abort with another exit code, a message on standard error) happens.
C2_ExitZeroOrOne ==
    (pc = "exited" /\ args.parsed) =>
        /\ exit_code \in {0, 1}
        /\ stderr = <<>>
        /\ exit_code = 1 => Cardinality({i \in 1..Len(stdout) : stdout[i].kind = "error"}) = 1
        /\ exit_code = 0 => ~HasKind(stdout, "error")

\* C3: the rendered range report, text or JSON, holds exactly one entry per
\* date of generate_multiple's result, none dropped or repeated, in calendar
\* order of the ISO date whatever the display pattern: the entry at a date's
\* calendar rank starts with that date as displayed and ends with its password.
C3_RangeEntriesChronological ==
    RangeRendered =>
        LET entries == ReportEntries(potd)
        IN  /\ Len(entries) = Cardinality(DOMAIN range_result)
            /\ \A k \in DOMAIN range_result :
                  /\ StartsWith(entries[Rank(k)], Displayed(k))
                  /\ EndsWith(entries[Rank(k)], range_result[k])

\* A range over a month boundary rendered day-month-year: the displayed
\* strings sort against the calendar.
C3_Witness ==
    /\ RangeRendered /\ pc = "rendered"
    /\ date_format = DmyPattern
    /\ Cardinality(DOMAIN range_result) >= 2
    /\ \E a \in DOMAIN range_result, b \in DOMAIN range_result :
          Ordinal(a) < Ordinal(b) /\ StrLess(Displayed(b), Displayed(a))

\* C4: in range mode with JSON output the report is a JSON object whose keys
\* are the displayed dates in calendar order, each with its password.
C4_RangeJsonObject ==
    (RangeRendered /\ format = "json") =>
        /\ potd.kind = "object"
        /\ Len(potd.keys) = Cardinality(DOMAIN range_result)
        /\ Len(potd.vals) = Cardinality(DOMAIN range_result)
        /\ \A k \in DOMAIN range_result :
              /\ potd.keys[Rank(k)] = Displayed(k)
              /\ potd.vals[Rank(k)] = range_result[k]

\* The text of a range report read back as lines: one line per date, the
\* line at a date's rank being the displayed date, sep and the password; no
\* trailing newline.
RangeTextLines(sep) ==
    (RangeRendered /\ format = "text") =>
        LET lines == split(potd.text, NEWLINE)
        IN  /\ potd.kind = "text"
            /\ Len(lines) = Cardinality(DOMAIN range_result)
            /\ \A k \in DOMAIN range_result :
                  lines[Rank(k)] = Displayed(k) \o sep \o range_result[k]
            /\ potd.text[Len(potd.text)] # NEWLINE

\* C5 as stated: each line of a text range report is the displayed date, a
\* colon, a tab and the password.
C5_RangeTextColonTab == RangeTextLines(<<COLON, TAB>>)

\* C5 as amended: each line of a text range report is the displayed date, a
\* colon, a space and the password; the lines are joined by single newlines
\* and the report has no trailing newline.
C5_RangeTextColonSpace == RangeTextLines(<<COLON, SPACE>>)

\* A text range report of two lines or more.
C5_Witness ==
    /\ RangeRendered /\ format = "text" /\ pc = "rendered"
    /\ Cardinality(DOMAIN range_result) >= 2
    /\ \E i \in 1..Len(potd.text) : potd.text[i] = NEWLINE

\* C6: a single-date run with a valid ISO date, a valid seed and a display
\* pattern chrono accepts succeeds in text and in JSON (a sink failure
\* aside); in JSON the report is the object of the displayed date and the
\* password; format_date is only ever applied to the ISO input date.
C6_SingleDateAnyPattern ==
    ( /\ pc = "exited" /\ args.parsed
      /\ Branch(args) \in {"today", "date"}
      /\ lib_date_ok(date) /\ seed_ok(seed) /\ pattern_ok(date_format)
      /\ ~HasError(stdout, "SinkError") ) =>
        /\ exit_code = 0
        /\ format = "json" => potd = JsonObject(<<Displayed(date)>>, <<password(date, seed)>>)
        /\ \A i \in 1..Len(calls) : calls[i].fn = "format_date" => calls[i].dates[1] = date

\* C7: no generation call is made with a date the tool's date validation
\* (format_date) rejects.
C7_DatesValidatedBeforeGeneration ==
    \A i \in 1..Len(calls) :
        IsGenerationCall(calls[i]) =>
            \A j \in 1..Len(calls[i].dates) :
                format_date(IsoPattern, calls[i].dates[j]).status = "ok"

\* C8: a run that fails before the sink leaves the output file as it found
\* it and prints no report, and ends with a failure; the file changes and a
\* report is printed only by the sink, after generation and rendering.
C8_NoOutputBeforeSink ==
    /\ FailedBeforeSink =>
          /\ file = file_at_start
          /\ ~HasKind(stdout, "report")
          /\ pc = "exited" => exit_code # 0
    /\ (file # file_at_start \/ HasKind(stdout, "report")) =>
          /\ Sunk
          /\ \E i \in 1..Len(calls) : IsGenerationCall(calls[i])

\* A range run with start after end, an output file named and already on
\* disk: the run failed and the file is as before.
C8_Witness ==
    /\ pc = "exited" /\ args.parsed /\ Branch(args) = "range"
    /\ lib_date_ok(args.range.val[1]) /\ lib_date_ok(args.range.val[2])
    /\ Ordinal(args.range.val[1]) > Ordinal(args.range.val[2])
    /\ args.output.some
    /\ file_at_start.exists
    /\ exit_code = 1
    /\ file = file_at_start

\* C9: a run that opens the output file leaves in it exactly its report and
\* one newline, whatever was there; a run whose open fails ends with exit
\* code 1 and leaves the file as it was; so the file only ever holds the
\* output of one run.
C9_FileHoldsLastReport ==
    /\ (Sunk /\ args.output.some) =>
          \/ /\ exit_code = 0
             /\ file = [exists |-> TRUE, data |-> ReportOut]
          \/ /\ exit_code = 1
             /\ HasError(stdout, "SinkError")
             /\ file = file_at_start
    /\ file.exists =>
          /\ Len(file.data) = 2
          /\ file.data[1].kind = "report"
          /\ file.data[2] = NL

\* A run has overwritten a file that held another report.
C9_Witness ==
    /\ Sunk /\ args.output.some /\ exit_code = 0
    /\ file_at_start.exists
    /\ file_at_start.data # file.data
    /\ file.data = ReportOut

====
